---- MODULE Spec2Model ----
(***************************************************************************)
(* Solar Energy Analyzer (src/app.py): a Streamlit script.  Every change   *)
(* of a sidebar widget re-executes the whole script from its first line,   *)
(* so one action of this model is one widget change followed by the full   *)
(* script run that recomputes every result and the displayed metrics.      *)
(*                                                                         *)
(* Numbers.  The script computes in IEEE-754 doubles.  The model computes  *)
(* the same expressions, in the same order, over exact rationals           *)
(* <<numerator, denominator>> kept in lowest terms with a positive         *)
(* denominator.  Statements checked here are therefore statements about    *)
(* the real-number value of each expression; the rounding error of the     *)
(* doubles (a relative error of about 1e-16 per operation) is not          *)
(* represented.                                                            *)
(***************************************************************************)
EXTENDS Integers, Sequences, FiniteSets, TLC

(***************************************************************************)
(* State: the widget values of the session and what the last run computed. *)
(* remembered is a history variable: the inputs and results of one earlier *)
(* run, and whether the script has run again since, kept to compare a      *)
(* later run with.                                                         *)
(***************************************************************************)
VARIABLES location, loc_data, system_size_kw, panel_efficiency, tilt_angle,
          orientation, system_losses_pct,
          annual_ghi, ghi_daily, orientation_factor, tilt_diff, tilt_factor,
          daily_irradiation_tilt, pr, specific_yield, annual_energy_kwh,
          capacity_factor, annual_ghi_tilt, monthly_fractions,
          monthly_energies, metrics,
          remembered

(***************************************************************************)
(* Exact rational arithmetic.                                              *)
(***************************************************************************)
Abs(n) == IF n < 0 THEN -n ELSE n

RECURSIVE GCD(_, _)
GCD(a, b) == IF b = 0 THEN a ELSE GCD(b, a % b)

\* n/d in lowest terms, d # 0.
Q(n, d) ==
    LET g == GCD(Abs(n), Abs(d))
        s == IF d < 0 THEN -1 ELSE 1
    IN  <<(s * n) \div g, (s * d) \div g>>

QInt(n) == <<n, 1>>

QMul(a, b) ==
    LET g1 == GCD(Abs(a[1]), b[2])
        g2 == GCD(Abs(b[1]), a[2])
    IN  <<(a[1] \div g1) * (b[1] \div g2), (a[2] \div g2) * (b[2] \div g1)>>

\* b # 0
QDiv(a, b) == QMul(a, IF b[1] < 0 THEN <<-b[2], -b[1]>> ELSE <<b[2], b[1]>>)

QAdd(a, b) ==
    LET g == GCD(a[2], b[2])
    IN  Q(a[1] * (b[2] \div g) + b[1] * (a[2] \div g), (a[2] \div g) * b[2])

QSub(a, b) == QAdd(a, <<-b[1], b[2]>>)

QAbs(a) == <<Abs(a[1]), a[2]>>

QLe(a, b) == a[1] * b[2] <= b[1] * a[2]

QLt(a, b) == a[1] * b[2] < b[1] * a[2]

\* Python's sum(): left to right from 0.
RECURSIVE QSumFrom(_, _, _)
QSumFrom(s, i, acc) ==
    IF i > Len(s) THEN acc ELSE QSumFrom(s, i + 1, QAdd(acc, s[i]))

QSum(s) == QSumFrom(s, 1, QInt(0))

\* The integer nearest to a * 10^k, ties to even: what "{a:.kf}" prints,
\* as a count of units of 10^-k.
Pow10(k) == IF k = 0 THEN 1 ELSE IF k = 1 THEN 10 ELSE IF k = 2 THEN 100
            ELSE IF k = 3 THEN 1000 ELSE 10000

FormatFixed(a, k) ==
    LET x == QMul(a, QInt(Pow10(k)))
        f == x[1] \div x[2]
        r == 2 * (x[1] - f * x[2])
    IN  IF r < x[2] THEN f
        ELSE IF r > x[2] THEN f + 1
        ELSE IF f % 2 = 0 THEN f ELSE f + 1

(***************************************************************************)
(* 1. Location database: monthly GHI, kWh/m2 per month.                    *)
(***************************************************************************)
SOLAR_LOCATIONS ==
    [l \in {"Kolkata, India", "Delhi, India", "Hamburg, Germany",
            "Munich, Germany", "Berlin, Germany"} |->
        CASE l = "Kolkata, India" ->
               [lat |-> Q(226, 10),
                monthly_ghi |-> <<120, 115, 140, 160, 170, 155, 150, 150, 145, 130, 110, 105>>]
          [] l = "Delhi, India" ->
               [lat |-> Q(286, 10),
                monthly_ghi |-> <<130, 135, 160, 180, 200, 190, 185, 180, 160, 140, 120, 115>>]
          [] l = "Hamburg, Germany" ->
               [lat |-> Q(535, 10),
                monthly_ghi |-> <<25, 45, 80, 115, 150, 165, 160, 135, 95, 60, 30, 18>>]
          [] l = "Munich, Germany" ->
               [lat |-> Q(481, 10),
                monthly_ghi |-> <<40, 60, 100, 135, 165, 175, 175, 150, 110, 70, 40, 30>>]
          [] OTHER ->
               [lat |-> Q(525, 10),
                monthly_ghi |-> <<30, 50, 90, 125, 155, 170, 165, 140, 100, 65, 35, 22>>]]

RECURSIVE IntSumFrom(_, _, _)
IntSumFrom(s, i, acc) ==
    IF i > Len(s) THEN acc ELSE IntSumFrom(s, i + 1, acc + s[i])

\* The function reading the loc_data global the previous run left behind
\* instead of its argument.
GetAnnualAndDailyGhiOfGlobal(location_data) ==
    LET monthly == loc_data.monthly_ghi
        annual  == IntSumFrom(monthly, 1, 0)
        daily   == QDiv(QInt(annual), QInt(365))
    IN  <<annual, daily>>

\* get_annual_and_daily_ghi: <<annual_ghi, daily_ghi>>
GetAnnualAndDailyGhi(location_data) ==
    LET monthly == location_data.monthly_ghi
        annual  == IntSumFrom(monthly, 1, 0)
        daily   == QDiv(QInt(annual), QInt(365))
    IN  <<annual, daily>>

(***************************************************************************)
(* 3. Calculations.                                                        *)
(***************************************************************************)
South     == "South (ideal in N hemisphere)"
SouthEastWest == "South-East / South-West"
EastWest  == "East / West"
Flat      == "Flat / Horizontal"

Orientations == {South, SouthEastWest, EastWest, Flat}

\* The last branch returning the East / West multiplier.
OrientationFactorFlatAsEastWest(o) ==
    IF o = South THEN Q(100, 100)
    ELSE IF o = SouthEastWest THEN Q(95, 100)
    ELSE IF o = EastWest THEN Q(90, 100)
    ELSE Q(90, 100)

\* The third comparison against a label the selectbox never returns.
OrientationFactorMislabelled(o) ==
    IF o = South THEN Q(100, 100)
    ELSE IF o = SouthEastWest THEN Q(95, 100)
    ELSE IF o = "East/West" THEN Q(90, 100)
    ELSE Q(88, 100)

\* Orientation factor: simple multipliers.
OrientationFactor(o) ==
    IF o = South THEN Q(100, 100)
    ELSE IF o = SouthEastWest THEN Q(95, 100)
    ELSE IF o = EastWest THEN Q(90, 100)
    ELSE Q(88, 100)

TiltDiff(tilt, latitude) == QAbs(QSub(tilt, latitude))

\* Strict comparisons: the boundaries fall into the upper bracket.
TiltFactorStrict(d) ==
    IF QLt(d, QInt(10)) THEN Q(100, 100)
    ELSE IF QLt(d, QInt(20)) THEN Q(96, 100)
    ELSE Q(90, 100)

TiltFactor(d) ==
    IF QLe(d, QInt(10)) THEN Q(100, 100)
    ELSE IF QLe(d, QInt(20)) THEN Q(96, 100)
    ELSE Q(90, 100)

\* Daily GHI adjusted by orientation and tilt.
DailyIrradiationTilt(daily, of, tf) == QMul(QMul(daily, of), tf)

\* Floor division of the integer slider value: 1 - losses // 100.
PerformanceRatioFloorDiv(losses) ==
    QSub(QInt(1), QInt((losses[1] \div losses[2]) \div 100))

\* System losses -> performance ratio.
PerformanceRatio(losses) == QSub(QInt(1), QDiv(losses, QInt(100)))

\* The loss fraction taken for the performance ratio.
SpecificYieldOfLosses(daily_tilt, ratio) ==
    QMul(QMul(daily_tilt, QInt(365)), QSub(QInt(1), ratio))

SpecificYield(daily_tilt, ratio) == QMul(QMul(daily_tilt, QInt(365)), ratio)

AnnualEnergyKwh(sy, size) == QMul(sy, size)

\* The rated power left out of the denominator.
CapacityFactorUnscaled(energy, size) == QDiv(energy, QInt(8760))

CapacityFactor(energy, size) == QDiv(energy, QMul(size, QInt(8760)))

AnnualGhiTilt(annual, of, tf) == QMul(QMul(QInt(annual), of), tf)

\* Shares taken of the tilted total, the quantity the guard tests.
MonthlyFractionsOfTilted(monthly, annual, annual_tilt) ==
    IF QLt(QInt(0), annual_tilt)
    THEN [i \in 1..Len(monthly) |-> QDiv(QInt(monthly[i]), annual_tilt)]
    ELSE [i \in 1..12 |-> QDiv(QInt(1), QInt(12))]

\* A fallback of zero shares.
MonthlyFractionsZeroFallback(monthly, annual, annual_tilt) ==
    IF QLt(QInt(0), annual_tilt)
    THEN [i \in 1..Len(monthly) |-> QDiv(QInt(monthly[i]), QInt(annual))]
    ELSE [i \in 1..12 |-> QInt(0)]

\* Monthly shares of the annual GHI; uniform when the guard fails.
MonthlyFractions(monthly, annual, annual_tilt) ==
    IF QLt(QInt(0), annual_tilt)
    THEN [i \in 1..Len(monthly) |-> QDiv(QInt(monthly[i]), QInt(annual))]
    ELSE [i \in 1..12 |-> QDiv(QInt(1), QInt(12))]

MonthlyEnergies(energy, fractions) ==
    [i \in 1..Len(fractions) |-> QMul(energy, fractions[i])]

\* 4. Outputs: the five st.metric values, as counts of the last printed digit.
Metrics(daily, daily_tilt, sy, energy, cf) ==
    [ghi_daily              |-> FormatFixed(daily, 2),
     daily_irradiation_tilt |-> FormatFixed(daily_tilt, 2),
     specific_yield         |-> FormatFixed(sy, 0),
     annual_energy_kwh      |-> FormatFixed(energy, 0),
     capacity_factor_pct    |-> FormatFixed(QMul(cf, QInt(100)), 1)]

\* Section 3 of the script, statement by statement.
CalculationSteps(ld, size, tilt, o, losses) ==
    LET ghi   == GetAnnualAndDailyGhi(ld)
        of    == OrientationFactor(o)
        d     == TiltDiff(tilt, ld.lat)
        tf    == TiltFactor(d)
        dit   == DailyIrradiationTilt(ghi[2], of, tf)
        ratio == PerformanceRatio(losses)
        sy    == SpecificYield(dit, ratio)
        en    == AnnualEnergyKwh(sy, size)
        cf    == CapacityFactor(en, size)
        agt   == AnnualGhiTilt(ghi[1], of, tf)
        fr    == MonthlyFractions(ld.monthly_ghi, ghi[1], agt)
        me    == MonthlyEnergies(en, fr)
    IN  [annual_ghi |-> ghi[1], ghi_daily |-> ghi[2],
         orientation_factor |-> of, tilt_diff |-> d, tilt_factor |-> tf,
         daily_irradiation_tilt |-> dit, pr |-> ratio,
         specific_yield |-> sy, annual_energy_kwh |-> en,
         capacity_factor |-> cf, annual_ghi_tilt |-> agt,
         monthly_fractions |-> fr, monthly_energies |-> me,
         metrics |-> Metrics(ghi[2], dit, sy, en, cf)]

\* A script that reads the efficiency slider: the rated size derated by
\* efficiency / 19.
CalculationsUsingEfficiency(ld, size, efficiency, tilt, o, losses) ==
    CalculationSteps(ld, QMul(size, QDiv(efficiency, QInt(19))), tilt, o, losses)

\* One execution of the script below the sidebar, for the widget values
\* given.  panel_efficiency is in scope and never read.
Calculations(ld, size, efficiency, tilt, o, losses) ==
    CalculationSteps(ld, size, tilt, o, losses)

inputs == <<location, loc_data, system_size_kw, panel_efficiency, tilt_angle,
            orientation, system_losses_pct>>

results == <<annual_ghi, ghi_daily, orientation_factor, tilt_diff, tilt_factor,
             daily_irradiation_tilt, pr, specific_yield, annual_energy_kwh,
             capacity_factor, annual_ghi_tilt, monthly_fractions,
             monthly_energies, metrics>>

vars == <<inputs, results, remembered>>

NothingRemembered == [inputs |-> <<>>, results |-> <<>>, rerun |-> FALSE]

\* The first run of a session, the widgets at the values given.
FirstRun(db, l, size, efficiency, tilt, o, losses) ==
    /\ location = l
    /\ loc_data = db[l]
    /\ system_size_kw = size
    /\ panel_efficiency = efficiency
    /\ tilt_angle = tilt
    /\ orientation = o
    /\ system_losses_pct = losses
    /\ \E c \in {Calculations(db[l], size, efficiency, tilt, o, losses)} :
        /\ annual_ghi = c.annual_ghi
        /\ ghi_daily = c.ghi_daily
        /\ orientation_factor = c.orientation_factor
        /\ tilt_diff = c.tilt_diff
        /\ tilt_factor = c.tilt_factor
        /\ daily_irradiation_tilt = c.daily_irradiation_tilt
        /\ pr = c.pr
        /\ specific_yield = c.specific_yield
        /\ annual_energy_kwh = c.annual_energy_kwh
        /\ capacity_factor = c.capacity_factor
        /\ annual_ghi_tilt = c.annual_ghi_tilt
        /\ monthly_fractions = c.monthly_fractions
        /\ monthly_energies = c.monthly_energies
        /\ metrics = c.metrics
    /\ remembered = NothingRemembered

\* A rerun of the script, the widgets at the values given.
Run(db, l, size, efficiency, tilt, o, losses) ==
    /\ location' = l
    /\ loc_data' = db[l]
    /\ system_size_kw' = size
    /\ panel_efficiency' = efficiency
    /\ tilt_angle' = tilt
    /\ orientation' = o
    /\ system_losses_pct' = losses
    /\ \E c \in {Calculations(db[l], size, efficiency, tilt, o, losses)} :
        /\ annual_ghi' = c.annual_ghi
        /\ ghi_daily' = c.ghi_daily
        /\ orientation_factor' = c.orientation_factor
        /\ tilt_diff' = c.tilt_diff
        /\ tilt_factor' = c.tilt_factor
        /\ daily_irradiation_tilt' = c.daily_irradiation_tilt
        /\ pr' = c.pr
        /\ specific_yield' = c.specific_yield
        /\ annual_energy_kwh' = c.annual_energy_kwh
        /\ capacity_factor' = c.capacity_factor
        /\ annual_ghi_tilt' = c.annual_ghi_tilt
        /\ monthly_fractions' = c.monthly_fractions
        /\ monthly_energies' = c.monthly_energies
        /\ metrics' = c.metrics
    /\ remembered' = IF remembered = NothingRemembered THEN remembered
                     ELSE [remembered EXCEPT !.rerun = TRUE]

\* int(loc_data["lat"]), the tilt slider's default, for a latitude >= 0.
IntOf(a) == a[1] \div a[2]

(***************************************************************************)
(* 2. Sidebar inputs.  Each widget offers a range; the model draws from a  *)
(* grid over the range that holds both ends and the widget's default.      *)
(***************************************************************************)
SizeSamples == 1
TiltSamples == 6
LossSamples == 1

DefaultLocation == "Kolkata, India"
DefaultSize == QInt(5)
DefaultEfficiency == QInt(19)
DefaultLosses == QInt(15)

\* number_input: 0.5 .. 100.0
SizeValues ==
    {Q(1 + (199 * k) \div SizeSamples, 2) : k \in 0..SizeSamples} \cup {DefaultSize}

\* slider: 15.0 .. 25.0
EfficiencyValues == {DefaultEfficiency, QInt(25)}

\* slider: 0 .. 60, step 1
TiltValues == {QInt((60 * k) \div TiltSamples) : k \in 0..TiltSamples}

\* slider: 5 .. 30, step 1
LossValues ==
    {QInt(5 + (25 * k) \div LossSamples) : k \in 0..LossSamples} \cup {DefaultLosses}

Init ==
    FirstRun(SOLAR_LOCATIONS, DefaultLocation, DefaultSize, DefaultEfficiency,
             QInt(IntOf(SOLAR_LOCATIONS[DefaultLocation].lat)), South, DefaultLosses)

\* The tilt slider is keyed by the location: a newly selected location shows
\* a fresh slider at its default, int(lat).
SelectLocation(db) ==
    \E l \in DOMAIN db :
        /\ l # location
        /\ Run(db, l, system_size_kw, panel_efficiency, QInt(IntOf(db[l].lat)),
               orientation, system_losses_pct)

SetSystemSize(db, S) ==
    \E s \in S :
        /\ s # system_size_kw
        /\ Run(db, location, s, panel_efficiency, tilt_angle, orientation,
               system_losses_pct)

SetPanelEfficiency(db, S) ==
    \E e \in S :
        /\ e # panel_efficiency
        /\ Run(db, location, system_size_kw, e, tilt_angle, orientation,
               system_losses_pct)

SetTiltAngle(db, S) ==
    \E t \in S :
        /\ t # tilt_angle
        /\ Run(db, location, system_size_kw, panel_efficiency, t, orientation,
               system_losses_pct)

SetOrientation(db, S) ==
    \E o \in S :
        /\ o # orientation
        /\ Run(db, location, system_size_kw, panel_efficiency, tilt_angle, o,
               system_losses_pct)

SetSystemLosses(db, S) ==
    \E p \in S :
        /\ p # system_losses_pct
        /\ Run(db, location, system_size_kw, panel_efficiency, tilt_angle,
               orientation, p)

Next ==
    \/ SelectLocation(SOLAR_LOCATIONS)
    \/ SetSystemSize(SOLAR_LOCATIONS, SizeValues)
    \/ SetPanelEfficiency(SOLAR_LOCATIONS, EfficiencyValues)
    \/ SetTiltAngle(SOLAR_LOCATIONS, TiltValues)
    \/ SetOrientation(SOLAR_LOCATIONS, Orientations)
    \/ SetSystemLosses(SOLAR_LOCATIONS, LossValues)

Spec == Init /\ [][Next]_vars

(***************************************************************************)
(* The yield calculation over location profiles in general: the five       *)
(* built-in ones, an all-zero profile, and a profile of 1800 kWh/m2/year   *)
(* at latitude 22.6.  Tilts are the ends of the range, two whole degrees    *)
(* between them, and the latitude 22.6 plus 0, 10, 10.0001, 20 and 20.0001 *)
(* degrees.  Every combination is an initial state: the first run of a     *)
(* session with those inputs.                                              *)
(***************************************************************************)
ZeroProfile == "All-zero profile"
ScenarioProfile == "1800 kWh/m2/year profile"

LocationProfiles ==
    [l \in DOMAIN SOLAR_LOCATIONS \cup {ZeroProfile, ScenarioProfile} |->
        IF l \in DOMAIN SOLAR_LOCATIONS THEN SOLAR_LOCATIONS[l]
        ELSE IF l = ZeroProfile
        THEN [lat |-> QInt(0),
              monthly_ghi |-> <<0, 0, 0, 0, 0, 0, 0, 0, 0, 0, 0, 0>>]
        ELSE [lat |-> Q(226, 10),
              monthly_ghi |-> <<100, 110, 140, 160, 180, 190, 195, 185, 160, 140, 125, 115>>]]

ProfileTilts ==
    {QInt(0), QInt(33), QInt(43), QInt(60)} \cup
    {QAdd(Q(226, 10), e) : e \in {QInt(0), QInt(10), Q(100001, 10000),
                                  QInt(20), Q(200001, 10000)}}

InitYield ==
    \E l \in DOMAIN LocationProfiles, s \in SizeValues, t \in ProfileTilts,
       o \in Orientations, p \in LossValues :
        FirstRun(LocationProfiles, l, s, DefaultEfficiency, t, o, p)

\* The calculation applied to another profile, the parameters kept.
ApplyProfile(db) ==
    \E l \in DOMAIN db :
        /\ l # location
        /\ Run(db, l, system_size_kw, panel_efficiency, tilt_angle, orientation,
               system_losses_pct)

NextYield ==
    \/ ApplyProfile(LocationProfiles)
    \/ SetSystemSize(LocationProfiles, SizeValues)
    \/ SetTiltAngle(LocationProfiles, ProfileTilts)
    \/ SetOrientation(LocationProfiles, Orientations)
    \/ SetSystemLosses(LocationProfiles, LossValues)

SpecYield == InitYield /\ [][NextYield]_vars

(***************************************************************************)
(* A session observed: the application over two locations and two values   *)
(* of every widget, with an observer that may remember any run.            *)
(***************************************************************************)
SessionLocations ==
    [l \in {"Kolkata, India", "Hamburg, Germany"} |-> SOLAR_LOCATIONS[l]]

Remember ==
    /\ remembered # [inputs |-> inputs, results |-> results, rerun |-> FALSE]
    /\ remembered' = [inputs |-> inputs, results |-> results, rerun |-> FALSE]
    /\ UNCHANGED <<inputs, results>>

NextSession ==
    \/ SelectLocation(SessionLocations)
    \/ SetSystemSize(SessionLocations, {DefaultSize, Q(1, 2)})
    \/ SetPanelEfficiency(SessionLocations, {DefaultEfficiency, QInt(15)})
    \/ SetTiltAngle(SessionLocations, {QInt(0)})
    \/ SetOrientation(SessionLocations, {South, Flat})
    \/ SetSystemLosses(SessionLocations, {DefaultLosses, QInt(30)})
    \/ Remember

SpecSession == Init /\ [][NextSession]_vars

(***************************************************************************)
(* Properties.                                                             *)
(***************************************************************************)
One == QInt(1)
Zero == QInt(0)

\* The 12 monthly values added one by one.
AnnualOf(m) ==
    m[1] + m[2] + m[3] + m[4] + m[5] + m[6] + m[7] + m[8] + m[9] + m[10] + m[11] + m[12]

\* C1: for every valid profile, the all-zero one included, and all parameters
\* in range, the 12 monthly energies add up to the annual energy, the 12
\* monthly fractions adding up to 1.
C1_MonthlyEnergiesSumToAnnual ==
    /\ Len(monthly_energies) = 12
    /\ Len(monthly_fractions) = 12
    /\ QSum(monthly_fractions) = One
    /\ QSum(monthly_energies) = annual_energy_kwh

C1_Witness ==
    /\ annual_ghi > 0
    /\ orientation = Flat
    /\ tilt_factor = Q(96, 100)
    /\ QSum(monthly_energies) = annual_energy_kwh
    /\ annual_energy_kwh # Zero

\* C2: specific yield = daily GHI x orientation factor x tilt factor x 365 x
\* (1 - losses/100), daily GHI = (sum of the 12 monthly values) / 365, annual
\* energy = specific yield x size, capacity factor = annual energy /
\* (size x 8760); so annual energy = annual GHI x orientation factor x tilt
\* factor x performance ratio x size.
C2_YieldFormulas ==
    LET annual == AnnualOf(loc_data.monthly_ghi)
        ratio  == QSub(One, QDiv(system_losses_pct, QInt(100)))
    IN  /\ system_size_kw[1] > 0
        /\ annual_ghi = annual
        /\ ghi_daily = Q(annual, 365)
        /\ specific_yield =
             QMul(QMul(QMul(QMul(ghi_daily, orientation_factor), tilt_factor),
                       QInt(365)), ratio)
        /\ annual_energy_kwh = QMul(specific_yield, system_size_kw)
        /\ capacity_factor = QDiv(annual_energy_kwh, QMul(system_size_kw, QInt(8760)))
        /\ annual_energy_kwh =
             QMul(system_size_kw,
                  QMul(ratio, QMul(tilt_factor, QMul(orientation_factor, QInt(annual)))))

C2_Witness ==
    /\ annual_ghi > 0
    /\ orientation_factor # One
    /\ tilt_factor # One
    /\ system_losses_pct # DefaultLosses
    /\ system_size_kw # DefaultSize
    /\ specific_yield # Zero

\* An angle with at most four decimals, in units of 0.0001 degree.
TenThousandths(a) == a[1] * (10000 \div a[2])

\* C3: the tilt factor depends only on d = |tilt - latitude|: 1.00 for
\* d <= 10, 0.96 for 10 < d <= 20, 0.90 for d > 20, the boundaries in the
\* lower bracket, for fractional d as well.
C3_TiltFactorBrackets ==
    LET d == Abs(TenThousandths(tilt_angle) - TenThousandths(loc_data.lat))
    IN  /\ tilt_diff = Q(d, 10000)
        /\ d <= 100000 => tilt_factor = One
        /\ (100000 < d /\ d <= 200000) => tilt_factor = Q(96, 100)
        /\ 200000 < d => tilt_factor = Q(90, 100)

C3_Witness ==
    /\ Abs(TenThousandths(tilt_angle) - TenThousandths(loc_data.lat)) = 200000
    /\ tilt_factor = Q(96, 100)

\* C4: the monthly fractions are monthly value / annual GHI whenever the
\* annual GHI is not 0, and 1/12 each exactly when it is 0; the all-zero
\* profile gives twelve fractions of 1/12 and twelve energies of 0, for every
\* orientation, tilt, loss and size.
C4_FractionsAndZeroGuard ==
    /\ annual_ghi # 0 =>
         \A i \in 1..12 :
            monthly_fractions[i] = Q(loc_data.monthly_ghi[i], annual_ghi)
    /\ annual_ghi = 0 =>
         \A i \in 1..12 :
            /\ monthly_fractions[i] = Q(1, 12)
            /\ monthly_energies[i] = Zero
    /\ (\A i \in 1..12 : monthly_fractions[i] = Q(1, 12)) <=> annual_ghi = 0

C4_Witness ==
    /\ location = ZeroProfile
    /\ annual_ghi = 0
    /\ orientation = Flat
    /\ tilt_factor = Q(90, 100)
    /\ \A i \in 1..12 : monthly_fractions[i] = Q(1, 12) /\ monthly_energies[i] = Zero

\* The scenario of C5: 1800 kWh/m2/year, latitude 22.6, tilt 22.6, South,
\* 15 % losses, 5 kW.
Scenario ==
    /\ annual_ghi = 1800
    /\ loc_data.lat = Q(226, 10)
    /\ tilt_angle = Q(226, 10)
    /\ orientation = South
    /\ system_losses_pct = QInt(15)
    /\ system_size_kw = QInt(5)

\* C5 as stated: in the scenario the tilt factor is 1.0, the orientation
\* factor 1.0, the performance ratio 0.85, the specific yield shows as 1531,
\* the annual energy as 7657, and the capacity factor is 0.1748.
C5_AsStated ==
    Scenario =>
        /\ tilt_factor = One
        /\ orientation_factor = One
        /\ pr = Q(85, 100)
        /\ metrics.specific_yield = 1531
        /\ metrics.annual_energy_kwh = 7657
        /\ FormatFixed(capacity_factor, 4) = 1748

\* C5 amended: in the scenario the tilt factor is 1.0, the orientation factor
\* 1.0, the performance ratio 0.85, the specific yield shows as 1530, the
\* annual energy as 7650, and the capacity factor is 0.1747 (shown as 17.5 %).
C5_ScenarioValues ==
    Scenario =>
        /\ tilt_factor = One
        /\ orientation_factor = One
        /\ pr = Q(85, 100)
        /\ specific_yield = QInt(1530)
        /\ annual_energy_kwh = QInt(7650)
        /\ metrics.specific_yield = 1530
        /\ metrics.annual_energy_kwh = 7650
        /\ FormatFixed(capacity_factor, 4) = 1747
        /\ metrics.capacity_factor_pct = 175

C5_Witness == Scenario /\ metrics.specific_yield = 1530

Scaled(a, f) == QMul(a, f)

\* C6: with everything else fixed, changing the orientation from South to
\* Flat multiplies the tilted daily irradiation, the specific yield, the
\* annual energy, the capacity factor and each monthly energy by 0.88, and
\* leaves the horizontal daily irradiation and the monthly fractions as they
\* were.
C6_SouthToFlatScales ==
    [][ ( /\ orientation = South
          /\ orientation' = Flat
          /\ <<location, loc_data, system_size_kw, panel_efficiency,
               tilt_angle, system_losses_pct>>' =
             <<location, loc_data, system_size_kw, panel_efficiency,
               tilt_angle, system_losses_pct>> )
        =>
        ( /\ daily_irradiation_tilt' = Scaled(daily_irradiation_tilt, Q(88, 100))
          /\ specific_yield' = Scaled(specific_yield, Q(88, 100))
          /\ annual_energy_kwh' = Scaled(annual_energy_kwh, Q(88, 100))
          /\ capacity_factor' = Scaled(capacity_factor, Q(88, 100))
          /\ \A i \in 1..12 :
                monthly_energies'[i] = Scaled(monthly_energies[i], Q(88, 100))
          /\ ghi_daily' = ghi_daily
          /\ monthly_fractions' = monthly_fractions ) ]_vars

C6_Witness ==
    /\ orientation = Flat
    /\ orientation_factor = Q(88, 100)
    /\ annual_ghi > 0
    /\ tilt_factor = Q(96, 100)

\* C7: the orientation factor is 1.00 for South, 0.95 for South-East /
\* South-West, 0.90 for East / West and 0.88 for Flat, and the orientation
\* and tilt factors lie in (0, 1].
C7_OrientationLookupAndRange ==
    /\ orientation \in Orientations
    /\ orientation = South => orientation_factor = One
    /\ orientation = SouthEastWest => orientation_factor = Q(95, 100)
    /\ orientation = EastWest => orientation_factor = Q(90, 100)
    /\ orientation = Flat => orientation_factor = Q(88, 100)
    /\ QLt(Zero, orientation_factor) /\ QLe(orientation_factor, One)
    /\ QLt(Zero, tilt_factor) /\ QLe(tilt_factor, One)

C7_Witness ==
    /\ orientation = EastWest
    /\ orientation_factor = Q(90, 100)
    /\ tilt_factor = Q(90, 100)

\* C8: a run that differs from the one before only in the panel efficiency
\* computes the same value for every result.
C8_EfficiencyNotConsumed ==
    [][ ( /\ panel_efficiency' # panel_efficiency
          /\ <<location, loc_data, system_size_kw, tilt_angle, orientation,
               system_losses_pct>>' =
             <<location, loc_data, system_size_kw, tilt_angle, orientation,
               system_losses_pct>> )
        => results' = results ]_vars

C8_Witness ==
    /\ panel_efficiency # DefaultEfficiency
    /\ system_size_kw # DefaultSize
    /\ location # DefaultLocation

C10_CapacityFactorRange ==
    /\ location \in DOMAIN SOLAR_LOCATIONS
    /\ capacity_factor = QDiv(specific_yield, QInt(8760))
    /\ QLe(Zero, capacity_factor)
    /\ QLe(capacity_factor, One)

C10_Witness ==
    /\ location = "Delhi, India"
    /\ system_size_kw = QInt(100)
    /\ system_losses_pct = QInt(5)
    /\ orientation = South
    /\ tilt_factor = One

====
